---- MODULE Spec2Model ----
(***************************************************************************)
(* A model of the datadog-client crate: the payload builders of            *)
(* metrics.rs (Serie) and events.rs (CreateEventPayload), their serde      *)
(* serialization, and Client::post of client.rs with its two wrappers      *)
(* post_metrics and post_event.                                            *)
(*                                                                         *)
(* Three specifications share the module:                                  *)
(*   Spec       calls of post / post_metrics / post_event on one Client,   *)
(*              interleaved at their two await points;                     *)
(*   SerieSpec  builder calls on one Serie;                                *)
(*   EventSpec  builder calls on one CreateEventPayload.                   *)
(***************************************************************************)
EXTENDS Integers, Sequences, FiniteSets, TLC

VARIABLES
    config,       \* Client.config: [host, api_key]
    constructed,  \* history: the Config the Client was constructed with
    pc,           \* per call: "idle", "awaitSend", "awaitBody" or "done"
    local,        \* per call: the locals of post (path, payload, status, result)
    wire,         \* per call: the requests it handed to the transport, in order
    delivered,    \* history, per call: what the transport gave back to it
    serie,        \* the Serie under construction
    serieOp,      \* history: the last builder call made on serie
    serieSet,     \* history: the optional fields of serie a setter was called for
    event,        \* the CreateEventPayload under construction
    eventSet      \* history: the optional fields a setter was called for

vars == <<config, constructed, pc, local, wire, delivered,
          serie, serieOp, serieSet, event, eventSet>>

clientVars == <<config, constructed, pc, local, wire, delivered>>
serieVars == <<serie, serieOp, serieSet>>
eventVars == <<event, eventSet>>

----------------------------------------------------------------------------
(* Bounds of the model. *)

MaxPoints == 2
MaxTags == 2
MaxCalls == 2

SeqsUpTo(S, n) == UNION {[1..k -> S] : k \in 0..n}

----------------------------------------------------------------------------
(* JSON values, as serde_json writes them.  An object keeps its members in *)
(* the order they were written.                                            *)

JNull == [t |-> "null"]
JStr(s) == [t |-> "str", s |-> s]
JNum(n) == [t |-> "num", n |-> n]
JArr(items) == [t |-> "arr", items |-> items]
JObj(members) == [t |-> "obj", members |-> members]

Keys(obj) == {obj.members[i][1] : i \in DOMAIN obj.members}
Values(obj) == {obj.members[i][2] : i \in DOMAIN obj.members}
Member(obj, key) ==
    LET i == CHOOSE j \in DOMAIN obj.members : obj.members[j][1] = key
    IN  obj.members[i][2]

(* Option<T> *)
None == [some |-> FALSE]
Some(v) == [some |-> TRUE, v |-> v]
IsNone(o) == ~o.some

(* Vec::is_empty *)
IsEmpty(v) == Len(v) = 0

MapSeq(f(_), s) == [i \in DOMAIN s |-> f(s[i])]

(* One field of a derived Serialize: written unless its                    *)
(* skip_serializing_if predicate holds.                                    *)
Field(key, value, skip) == IF skip THEN <<>> ELSE << <<key, value>> >>

(* Option<T> as serde writes it when it is written: null for None. *)
SerializeOption(ser(_), o) == IF o.some THEN ser(o.v) ELSE JNull

SerializeStrings(v) == JArr(MapSeq(JStr, v))

----------------------------------------------------------------------------
(* metrics.rs *)

Types == {"Count", "Gauge", "Rate"}

(* #[serde(rename_all = "snake_case")] on Type *)
SerializeType(ty) ==
    CASE ty = "Count" -> JStr("count")
      [] ty = "Gauge" -> JStr("gauge")
      [] ty = "Rate"  -> JStr("rate")

PointNew(timestamp, value) == [timestamp |-> timestamp, value |-> value]

(* impl Serialize for Point: a sequence of two elements *)
SerializePoint(p) == JArr(<<JNum(p.timestamp), JNum(p.value)>>)

Serie_new(metric, dtype) ==
    [host |-> None, interval |-> None, metric |-> metric,
     points |-> <<>>, tags |-> <<>>, dtype |-> dtype]

Serie_set_host(s, host) == [s EXCEPT !.host = Some(host)]
Serie_set_interval(s, interval) == [s EXCEPT !.interval = Some(interval)]
Serie_set_points(s, points) == [s EXCEPT !.points = points]
Serie_add_point(s, point) == [s EXCEPT !.points = Append(@, point)]
Serie_set_tags(s, tags) == [s EXCEPT !.tags = tags]
Serie_add_tag_front(s, tag) == [s EXCEPT !.tags = <<tag>> \o @]
Serie_add_tag(s, tag) == [s EXCEPT !.tags = Append(@, tag)]

SerieTagsFieldSkipEmpty(s) ==
    Field("tags", SerializeStrings(s.tags), IsEmpty(s.tags))
SerieTagsField(s) == Field("tags", SerializeStrings(s.tags), FALSE)

(* #[derive(Serialize)] on Serie: the fields in declaration order *)
SerializeSerie(s) ==
    JObj(Field("host", SerializeOption(JStr, s.host), IsNone(s.host))
         \o Field("interval", SerializeOption(JNum, s.interval), IsNone(s.interval))
         \o Field("metric", JStr(s.metric), FALSE)
         \o Field("points", JArr(MapSeq(SerializePoint, s.points)), FALSE)
         \o SerieTagsField(s)
         \o Field("type", SerializeType(s.dtype), FALSE))

(* The values the builder calls are made with.  A Point's value is an f64  *)
(* in the code; the points here have whole values, written as numbers.     *)
MetricNames == {"metric", "cpu.usage"}
HostNames == {"host", "raspberrypi"}
Intervals == {42, -1}
Points == {PointNew(1234, 1), PointNew(123456, 12)}
Tags == {"tag", "whatever:tag"}

NoOp == [op |-> "new"]

SerieInit ==
    /\ serie \in {Serie_new(m, ty) : m \in MetricNames, ty \in Types}
    /\ serieOp = NoOp
    /\ serieSet = {}

SerieSetHost ==
    \E host \in HostNames :
        /\ serie' = Serie_set_host(serie, host)
        /\ serieOp' = [op |-> "set_host", host |-> host]
        /\ serieSet' = serieSet \cup {"host"}
        /\ UNCHANGED <<clientVars, eventVars>>

SerieSetInterval ==
    \E interval \in Intervals :
        /\ serie' = Serie_set_interval(serie, interval)
        /\ serieOp' = [op |-> "set_interval", interval |-> interval]
        /\ serieSet' = serieSet \cup {"interval"}
        /\ UNCHANGED <<clientVars, eventVars>>

SerieSetPoints ==
    \E points \in SeqsUpTo(Points, MaxPoints) :
        /\ serie' = Serie_set_points(serie, points)
        /\ serieOp' = [op |-> "set_points", points |-> points]
        /\ UNCHANGED <<serieSet, clientVars, eventVars>>

SerieAddPoint ==
    \E point \in Points :
        /\ Len(serie.points) < MaxPoints
        /\ serie' = Serie_add_point(serie, point)
        /\ serieOp' = [op |-> "add_point", point |-> point]
        /\ UNCHANGED <<serieSet, clientVars, eventVars>>

SerieSetTags ==
    \E tags \in SeqsUpTo(Tags, MaxTags) :
        /\ serie' = Serie_set_tags(serie, tags)
        /\ serieOp' = [op |-> "set_tags", tags |-> tags]
        /\ UNCHANGED <<serieSet, clientVars, eventVars>>

SerieAddTag ==
    \E tag \in Tags :
        /\ Len(serie.tags) < MaxTags
        /\ serie' = Serie_add_tag(serie, tag)
        /\ serieOp' = [op |-> "add_tag", tag |-> tag]
        /\ UNCHANGED <<serieSet, clientVars, eventVars>>

SerieNext ==
    \/ SerieSetHost
    \/ SerieSetInterval
    \/ SerieSetPoints
    \/ SerieAddPoint
    \/ SerieSetTags
    \/ SerieAddTag

----------------------------------------------------------------------------
(* events.rs *)

AlertTypes == {"Error", "Warning", "Info", "Success", "UserUpdate",
               "Recommendation", "Snapshot"}

(* #[serde(rename_all = "snake_case")] on AlertType *)
SerializeAlertType(a) ==
    CASE a = "Error"          -> JStr("error")
      [] a = "Warning"        -> JStr("warning")
      [] a = "Info"           -> JStr("info")
      [] a = "Success"        -> JStr("success")
      [] a = "UserUpdate"     -> JStr("user_update")
      [] a = "Recommendation" -> JStr("recommendation")
      [] a = "Snapshot"       -> JStr("snapshot")

Priorities == {"Normal", "Low"}

(* #[serde(rename_all = "snake_case")] on Priority *)
SerializePriority(p) ==
    CASE p = "Normal" -> JStr("normal")
      [] p = "Low"    -> JStr("low")

CreateEventPayload_new(title, text) ==
    [aggregation_key |-> None, alert_type |-> None, date_happened |-> None,
     device_name |-> None, host |-> None, priority |-> None,
     related_event_id |-> None, source_type_name |-> None,
     tags |-> <<>>, text |-> text, title |-> title]

Event_set_aggregation_key(e, value) == [e EXCEPT !.aggregation_key = Some(value)]
Event_set_alert_type(e, value) == [e EXCEPT !.alert_type = Some(value)]
Event_set_date_happened(e, value) == [e EXCEPT !.date_happened = Some(value)]
Event_set_device_name(e, value) == [e EXCEPT !.device_name = Some(value)]
Event_set_host(e, value) == [e EXCEPT !.host = Some(value)]
Event_set_priority(e, value) == [e EXCEPT !.priority = Some(value)]
Event_set_related_event_id(e, value) == [e EXCEPT !.related_event_id = Some(value)]
Event_set_source_type_name(e, value) == [e EXCEPT !.source_type_name = Some(value)]
Event_add_tag(e, value) == [e EXCEPT !.tags = Append(@, value)]
Event_set_tags(e, tags) == [e EXCEPT !.tags = tags]

EventHostFieldNoSkip(e) == Field("host", SerializeOption(JStr, e.host), FALSE)
EventHostField(e) == Field("host", SerializeOption(JStr, e.host), IsNone(e.host))

EventTagsField(e) == Field("tags", SerializeStrings(e.tags), IsEmpty(e.tags))

(* #[derive(Serialize)] on CreateEventPayload: the fields in declaration   *)
(* order, each Option skipped when None, tags skipped when empty.          *)
SerializeEvent(e) ==
    JObj(Field("aggregation_key", SerializeOption(JStr, e.aggregation_key),
               IsNone(e.aggregation_key))
         \o Field("alert_type", SerializeOption(SerializeAlertType, e.alert_type),
                  IsNone(e.alert_type))
         \o Field("date_happened", SerializeOption(JNum, e.date_happened),
                  IsNone(e.date_happened))
         \o Field("device_name", SerializeOption(JStr, e.device_name),
                  IsNone(e.device_name))
         \o EventHostField(e)
         \o Field("priority", SerializeOption(SerializePriority, e.priority),
                  IsNone(e.priority))
         \o Field("related_event_id", SerializeOption(JNum, e.related_event_id),
                  IsNone(e.related_event_id))
         \o Field("source_type_name", SerializeOption(JStr, e.source_type_name),
                  IsNone(e.source_type_name))
         \o EventTagsField(e)
         \o Field("text", JStr(e.text), FALSE)
         \o Field("title", JStr(e.title), FALSE))

(* The values the builder calls are made with. *)
Titles == {"Some Title"}
Texts == {"Some Text in Markdown", ""}
AggregationKeys == {"whatever", ""}
Timestamps == {0}
DeviceNames == {"device"}
EventIds == {-7}
SourceTypeNames == {"nagios"}
EventTags == {"environment:prod", "testing"}

EventInit ==
    /\ event \in {CreateEventPayload_new(ti, tx) : ti \in Titles, tx \in Texts}
    /\ eventSet = {}

EventSetAggregationKey ==
    \E value \in AggregationKeys :
        /\ event' = Event_set_aggregation_key(event, value)
        /\ eventSet' = eventSet \cup {"aggregation_key"}
        /\ UNCHANGED <<clientVars, serieVars>>

EventSetAlertType ==
    \E value \in AlertTypes :
        /\ event' = Event_set_alert_type(event, value)
        /\ eventSet' = eventSet \cup {"alert_type"}
        /\ UNCHANGED <<clientVars, serieVars>>

EventSetDateHappened ==
    \E value \in Timestamps :
        /\ event' = Event_set_date_happened(event, value)
        /\ eventSet' = eventSet \cup {"date_happened"}
        /\ UNCHANGED <<clientVars, serieVars>>

EventSetDeviceName ==
    \E value \in DeviceNames :
        /\ event' = Event_set_device_name(event, value)
        /\ eventSet' = eventSet \cup {"device_name"}
        /\ UNCHANGED <<clientVars, serieVars>>

EventSetHost ==
    \E value \in HostNames :
        /\ event' = Event_set_host(event, value)
        /\ eventSet' = eventSet \cup {"host"}
        /\ UNCHANGED <<clientVars, serieVars>>

EventSetPriority ==
    \E value \in Priorities :
        /\ event' = Event_set_priority(event, value)
        /\ eventSet' = eventSet \cup {"priority"}
        /\ UNCHANGED <<clientVars, serieVars>>

EventSetRelatedEventId ==
    \E value \in EventIds :
        /\ event' = Event_set_related_event_id(event, value)
        /\ eventSet' = eventSet \cup {"related_event_id"}
        /\ UNCHANGED <<clientVars, serieVars>>

EventSetSourceTypeName ==
    \E value \in SourceTypeNames :
        /\ event' = Event_set_source_type_name(event, value)
        /\ eventSet' = eventSet \cup {"source_type_name"}
        /\ UNCHANGED <<clientVars, serieVars>>

EventAddTag ==
    \E value \in EventTags :
        /\ Len(event.tags) < MaxTags
        /\ event' = Event_add_tag(event, value)
        /\ UNCHANGED <<eventSet, clientVars, serieVars>>

EventSetTags ==
    \E tags \in SeqsUpTo(EventTags, MaxTags) :
        /\ event' = Event_set_tags(event, tags)
        /\ UNCHANGED <<eventSet, clientVars, serieVars>>

EventNext ==
    \/ EventSetAggregationKey
    \/ EventSetAlertType
    \/ EventSetDateHappened
    \/ EventSetDeviceName
    \/ EventSetHost
    \/ EventSetPriority
    \/ EventSetRelatedEventId
    \/ EventSetSourceTypeName
    \/ EventAddTag
    \/ EventSetTags

----------------------------------------------------------------------------
(* client.rs *)

Config_new(host, api_key) == [host |-> host, api_key |-> api_key]

(* Result<(), Error> *)
Ok == [kind |-> "Ok"]
ErrReqwest(why) == [kind |-> "Reqwest", why |-> why]
ErrBody(status, errors) == [kind |-> "Body", status |-> status, errors |-> errors]
Pending == [kind |-> "pending"]

(* reqwest::StatusCode::is_client_error / is_server_error *)
IsClientError(status) == 400 <= status /\ status < 500
IsServerErrorOpen(status) == 500 <= status
IsServerError(status) == 500 <= status /\ status < 600

(* format!("{}{}", self.config.host, path) *)
UrlWithSlash(host, path) == host \o "/" \o path
Url(host, path) == host \o path

(* What a payload type T: Serialize is written as by .json(payload). *)
StringPayload(s) == [ty |-> "String", v |-> s]
ValuePayload(json) == [ty |-> "Value", v |-> json]
EventPayload(e) == [ty |-> "CreateEventPayload", v |-> e]
NoPayload == [ty |-> "none"]

ToJson(payload) ==
    CASE payload.ty = "String" -> JStr(payload.v)
      [] payload.ty = "Value" -> payload.v
      [] payload.ty = "CreateEventPayload" -> SerializeEvent(payload.v)

(* The request built on lines 46-50 of client.rs. *)
BuildRequest(cfg, path, payload) ==
    [method |-> "POST",
     url |-> Url(cfg.host, path),
     headers |-> << <<"Content-Type", "application/json">>,
                    <<"DD-API-KEY", cfg.api_key>> >>,
     body |-> ToJson(payload)]

(* .send(): the request is handed to the transport, once. *)
SendAgain(w, request) == Append(Append(w, request), request)
Send(w, request) == Append(w, request)

(* #[derive(Deserialize)] struct BodyError { errors: Vec<String> }, read   *)
(* by response.json::<BodyError>(): the body has to be a JSON object whose *)
(* "errors" member is an array of strings; other members are ignored.      *)
ParseBodyErrorReversed(body) ==
    IF /\ body.t = "obj"
       /\ "errors" \in Keys(body)
       /\ Member(body, "errors").t = "arr"
       /\ \A i \in DOMAIN Member(body, "errors").items :
              Member(body, "errors").items[i].t = "str"
    THEN LET items == Member(body, "errors").items
         IN  [ok |-> TRUE,
              errors |-> [i \in DOMAIN items |-> items[Len(items) + 1 - i].s]]
    ELSE [ok |-> FALSE]
ParseBodyErrorDefault(body) ==
    IF body.t = "obj" /\ "errors" \notin Keys(body)
    THEN [ok |-> TRUE, errors |-> <<>>]
    ELSE IF /\ body.t = "obj"
            /\ Member(body, "errors").t = "arr"
            /\ \A i \in DOMAIN Member(body, "errors").items :
                   Member(body, "errors").items[i].t = "str"
    THEN LET items == Member(body, "errors").items
         IN  [ok |-> TRUE, errors |-> [i \in DOMAIN items |-> items[i].s]]
    ELSE [ok |-> FALSE]
ParseBodyError(body) ==
    IF /\ body.t = "obj"
       /\ "errors" \in Keys(body)
       /\ Member(body, "errors").t = "arr"
       /\ \A i \in DOMAIN Member(body, "errors").items :
              Member(body, "errors").items[i].t = "str"
    THEN LET items == Member(body, "errors").items
         IN  [ok |-> TRUE, errors |-> [i \in DOMAIN items |-> items[i].s]]
    ELSE [ok |-> FALSE]

(* The paths of the two endpoints. *)
MetricsPath == "/api/v1/series"
EventsPathSeries == "/api/v1/series"
EventsPath == "/api/v1/events"

(* serde_json::json!({ "series": series }): an object with the one member *)
(* series, an array of the series as they serialize.                       *)
MetricsPayload(series) ==
    ValuePayload(JObj(<< <<"series", JArr(MapSeq(SerializeSerie, series))>> >>))

(* The local of post that a call reads after its await: its own. *)
StatusOfFirstCall(c) == local[1].status
StatusOf(c) == local[c].status

Calls == 1..MaxCalls

(* What the caller and the transport may supply.  The first call draws     *)
(* from the full sets; the calls running beside it draw from the subsets   *)
(* named Other..., which keep one case of each outcome of post.            *)
Configs == {Config_new("http://127.0.0.1:1234", "fake-api-key"),
            Config_new("https://api.datadoghq.com/", "0123abcd")}
Paths == {"/somewhere", "somewhere"}
OtherPaths == {"/somewhere"}
PostPayloads == {StringPayload("Hello World!")}
OtherSeriesInputs ==
    {<<Serie_add_point(Serie_new("something", "Gauge"), PointNew(1234, 12)),
       Serie_set_host(Serie_add_tag(Serie_new("metric", "Count"), "tag"), "host")>>}
SeriesInputs == {<<>>} \cup OtherSeriesInputs
OtherEventInputs ==
    {Event_add_tag(CreateEventPayload_new("Some Event Title", "Some event text"),
                   "testing")}
EventInputs ==
    {Event_set_priority(CreateEventPayload_new("Some Title", ""), "Low")}
    \cup OtherEventInputs
OtherStatuses == {202, 403, 500}
Statuses == {100, 301, 399, 400, 499, 599, 600} \cup OtherStatuses
NotJson(text) == [t |-> "text", s |-> text]
ReadError == [t |-> "readError"]
NoBody == [t |-> "none"]
OtherBodies ==
    {NotJson(""),
     JObj(<< <<"errors", JArr(<<JStr("Authentication error")>>)>> >>)}
Bodies ==
    {NotJson("Internal Server Error"),
     JObj(<< <<"errors", JArr(<<JStr("a"), JStr("b")>>)>> >>),
     JObj(<< <<"errors", JArr(<<>>)>> >>),
     JObj(<< <<"status", JStr("error")>>, <<"errors", JArr(<<JStr("b"), JStr("a")>>)>> >>),
     JObj(<< <<"errors", JStr("Authentication error")>> >>),
     JObj(<< <<"errors", JArr(<<JStr("a"), JNum(1)>>)>> >>),
     JObj(<< <<"message", JStr("Forbidden")>> >>),
     JArr(<<>>)}
    \cup OtherBodies

PathsFor(c) == IF c = 1 THEN Paths ELSE OtherPaths
SeriesInputsFor(c) == IF c = 1 THEN SeriesInputs ELSE OtherSeriesInputs
EventInputsFor(c) == IF c = 1 THEN EventInputs ELSE OtherEventInputs
StatusesFor(c) == IF c = 1 THEN Statuses ELSE OtherStatuses
BodiesFor(c) == IF c = 1 THEN Bodies ELSE OtherBodies

NoLocal ==
    [fn |-> "none", arg |-> NoPayload, path |-> "", payload |-> NoPayload,
     status |-> 0, result |-> Pending]
NothingDelivered == [send |-> "none", status |-> 0, body |-> NoBody]

ClientInit ==
    /\ config \in Configs
    /\ constructed = config
    /\ pc = [c \in Calls |-> "idle"]
    /\ local = [c \in Calls |-> NoLocal]
    /\ wire = [c \in Calls |-> <<>>]
    /\ delivered = [c \in Calls |-> NothingDelivered]

(* The parts of the state a specification does not use stay as they are. *)
ClientUnused ==
    /\ config = Config_new("", "")
    /\ constructed = config
    /\ pc = [c \in Calls |-> "idle"]
    /\ local = [c \in Calls |-> NoLocal]
    /\ wire = [c \in Calls |-> <<>>]
    /\ delivered = [c \in Calls |-> NothingDelivered]

SerieUnused ==
    /\ serie = Serie_new("", "Count")
    /\ serieOp = NoOp
    /\ serieSet = {}

EventUnused ==
    /\ event = CreateEventPayload_new("", "")
    /\ eventSet = {}

Init == ClientInit /\ SerieUnused /\ EventUnused
SerieSpecInit == ClientUnused /\ SerieInit /\ EventUnused
EventSpecInit == ClientUnused /\ SerieUnused /\ EventInit

(* Client::post up to its first await (lines 44-52): the URL and the       *)
(* request are built and the request is sent.  fn and arg record which     *)
(* method the caller called and with what.                                 *)
Post(c, fn, arg, path, payload) ==
    /\ local' = [local EXCEPT ![c] = [fn |-> fn, arg |-> arg, path |-> path,
                                      payload |-> payload, status |-> 0,
                                      result |-> Pending]]
    /\ wire' = [wire EXCEPT ![c] = Send(@, BuildRequest(config, path, payload))]
    /\ pc' = [pc EXCEPT ![c] = "awaitSend"]
    /\ UNCHANGED <<config, constructed, delivered, serieVars, eventVars>>

(* A caller calls post: call c is one not yet made. *)
post(c) ==
    \E path \in PathsFor(c), payload \in PostPayloads :
        /\ pc[c] = "idle"
        /\ Post(c, "post", payload, path, payload)

(* self.post("/api/v1/series", &payload).await *)
post_metrics(c) ==
    \E series \in SeriesInputsFor(c) :
        /\ pc[c] = "idle"
        /\ Post(c, "post_metrics", [ty |-> "series", v |-> series],
                MetricsPath, MetricsPayload(series))

(* self.post("/api/v1/events", event).await *)
post_event(c) ==
    \E e \in EventInputsFor(c) :
        /\ pc[c] = "idle"
        /\ Post(c, "post_event", EventPayload(e), EventsPath, EventPayload(e))

(* send().await? gives Err: the transport delivered no response (line 52). *)
PostSendFailed(c) ==
    /\ pc[c] = "awaitSend"
    /\ delivered' = [delivered EXCEPT ![c].send = "failure"]
    /\ local' = [local EXCEPT ![c].result = ErrReqwest("send")]
    /\ pc' = [pc EXCEPT ![c] = "done"]
    /\ UNCHANGED <<config, constructed, wire, serieVars, eventVars>>

(* send().await? gives a response: lines 53-59 up to the second await. *)
PostResponse(c) ==
    \E status \in StatusesFor(c) :
        /\ pc[c] = "awaitSend"
        /\ delivered' = [delivered EXCEPT ![c].send = "response",
                                          ![c].status = status]
        /\ IF IsClientError(status) \/ IsServerError(status)
           THEN /\ local' = [local EXCEPT ![c].status = status]
                /\ pc' = [pc EXCEPT ![c] = "awaitBody"]
           ELSE /\ local' = [local EXCEPT ![c].status = status,
                                          ![c].result = Ok]
                /\ pc' = [pc EXCEPT ![c] = "done"]
        /\ UNCHANGED <<config, constructed, wire, serieVars, eventVars>>

(* response.json::<BodyError>().await? completes (lines 55-56): the body   *)
(* was read or reading it failed, and what was read parses or does not.    *)
PostBody(c) ==
    \E body \in BodiesFor(c) \cup {ReadError} :
        /\ pc[c] = "awaitBody"
        /\ delivered' = [delivered EXCEPT ![c].body = body]
        /\ local' = [local EXCEPT ![c].result =
                        IF body = ReadError THEN ErrReqwest("body")
                        ELSE IF ParseBodyError(body).ok
                             THEN ErrBody(StatusOf(c), ParseBodyError(body).errors)
                             ELSE ErrReqwest("decode")]
        /\ pc' = [pc EXCEPT ![c] = "done"]
        /\ UNCHANGED <<config, constructed, wire, serieVars, eventVars>>

Next ==
    \E c \in Calls :
        \/ post(c)
        \/ post_metrics(c)
        \/ post_event(c)
        \/ PostSendFailed(c)
        \/ PostResponse(c)
        \/ PostBody(c)

Spec == Init /\ [][Next]_vars
SerieSpec == SerieSpecInit /\ [][SerieNext]_vars
EventSpec == EventSpecInit /\ [][EventNext]_vars

----------------------------------------------------------------------------
(* Properties of Client::post, post_metrics and post_event (Spec).         *)

Done(c) == pc[c] = "done"
GotResponse(c) == delivered[c].send = "response"
IsErrorStatus(status) == status \in 400..599

(* The body is a JSON object with an "errors" member that is an array of   *)
(* strings.                                                                *)
HasErrorsShape(body) ==
    /\ body.t = "obj"
    /\ \E i \in DOMAIN body.members :
          /\ body.members[i][1] = "errors"
          /\ body.members[i][2].t = "arr"
          /\ \A j \in DOMAIN body.members[i][2].items :
                 body.members[i][2].items[j].t = "str"

BodyWasRead(c) == delivered[c].body.t \notin {"none", "readError"}

(* C1: a finished call returned Ok(()) exactly when the transport          *)
(* delivered a response whose status is outside 400..599; otherwise it     *)
(* returned one of the two errors.                                         *)
C1_OkIffStatusNotError ==
    \A c \in Calls :
        Done(c) =>
            /\ (local[c].result = Ok) <=>
                   (GotResponse(c) /\ ~IsErrorStatus(delivered[c].status))
            /\ local[c].result # Ok => local[c].result.kind \in {"Reqwest", "Body"}

(* A 3xx and a status above 599 were answered with Ok(()), a transport     *)
(* failure with an error.                                                  *)
C1_Witness ==
    /\ Done(1) /\ delivered[1].status = 600 /\ local[1].result = Ok
    /\ Done(2) /\ delivered[2].send = "failure" /\ local[2].result.kind = "Reqwest"

(* C2: a finished call that got a 4xx or 5xx status and a body of the      *)
(* errors shape returned Body with that status and the body's strings in   *)
(* their order, whichever of post, post_metrics and post_event was called. *)
C2_BodyErrorCarriesStatusAndErrors ==
    \A c \in Calls :
        (/\ Done(c) /\ GotResponse(c) /\ IsErrorStatus(delivered[c].status)
         /\ BodyWasRead(c) /\ HasErrorsShape(delivered[c].body)) =>
            LET strings == Member(delivered[c].body, "errors").items
                result == local[c].result
            IN  /\ result.kind = "Body"
                /\ result.status = delivered[c].status
                /\ Len(result.errors) = Len(strings)
                /\ \A i \in DOMAIN strings : JStr(result.errors[i]) = strings[i]

(* post_event answered with 403 and {"errors":["Authentication error"]}    *)
(* returned Body(403, ["Authentication error"]); a post answered with two  *)
(* strings returned them in order.                                         *)
C2_Witness ==
    /\ Done(2) /\ local[2].fn = "post_event"
    /\ local[2].result = ErrBody(403, <<"Authentication error">>)
    /\ Done(1) /\ local[1].fn = "post"
    /\ local[1].result = ErrBody(500, <<"a", "b">>)

(* C3: a finished call that got a 4xx or 5xx status and a body that is not *)
(* of the errors shape returned Reqwest (a decode failure): neither Ok nor *)
(* Body.                                                                   *)
C3_UnparseableBodyIsReqwestError ==
    \A c \in Calls :
        (/\ Done(c) /\ GotResponse(c) /\ IsErrorStatus(delivered[c].status)
         /\ BodyWasRead(c) /\ ~HasErrorsShape(delivered[c].body)) =>
            local[c].result = ErrReqwest("decode")

(* Status 500 with an empty body, and status 403 with a JSON object that   *)
(* has no errors member, both returned the decode failure.                 *)
C3_Witness ==
    /\ Done(2) /\ delivered[2].status = 500 /\ delivered[2].body = NotJson("")
    /\ local[2].result = ErrReqwest("decode")
    /\ Done(1) /\ delivered[1].status = 403
    /\ delivered[1].body = JObj(<< <<"message", JStr("Forbidden")>> >>)
    /\ local[1].result = ErrReqwest("decode")

(* C4: a call that was made has sent exactly one request, at every point   *)
(* until and after it finished, whatever its outcome; a call that finished *)
(* has a result; the Client's configuration is the one it was constructed  *)
(* with.                                                                   *)
C4_OneRequestPerCall ==
    /\ \A c \in Calls :
          /\ Len(wire[c]) = IF pc[c] = "idle" THEN 0 ELSE 1
          /\ Done(c) <=> local[c].result # Pending
    /\ config = constructed

(* One call finished on a transport failure and one on a 5xx whose body    *)
(* could not be read, each with one request sent.                          *)
C4_Witness ==
    /\ Done(1) /\ local[1].result = ErrReqwest("send") /\ Len(wire[1]) = 1
    /\ Done(2) /\ delivered[2].status = 500 /\ local[2].result = ErrReqwest("body")
    /\ Len(wire[2]) = 1

HasHeader(request, name, value) ==
    \E i \in DOMAIN request.headers : request.headers[i] = <<name, value>>

(* C5: every request sent is a POST to the constructed host followed       *)
(* directly by the path of the call, with the headers Content-Type:        *)
(* application/json and DD-API-KEY: the constructed key, and the payload   *)
(* as JSON for its body.                                                   *)
C5_RequestShape ==
    \A c \in Calls :
        \A i \in DOMAIN wire[c] :
            LET request == wire[c][i]
            IN  /\ request.method = "POST"
                /\ request.url = constructed.host \o local[c].path
                /\ HasHeader(request, "Content-Type", "application/json")
                /\ HasHeader(request, "DD-API-KEY", constructed.api_key)
                /\ local[c].payload.ty = "String" =>
                       request.body = JStr(local[c].payload.v)
                /\ local[c].payload.ty = "Value" =>
                       request.body = local[c].payload.v
                /\ local[c].payload.ty = "CreateEventPayload" =>
                       request.body = SerializeEvent(local[c].payload.v)

(* A host without a trailing slash and a path without a leading one were   *)
(* joined as they are.                                                     *)
C5_Witness ==
    /\ Len(wire[1]) = 1
    /\ wire[1][1].url = "http://127.0.0.1:1234somewhere"
    /\ wire[1][1].body = JStr("Hello World!")
    /\ HasHeader(wire[1][1], "DD-API-KEY", "fake-api-key")

(* What post returns for what the transport delivered to the call. *)
ResultFor(d) ==
    IF d.send = "failure" THEN ErrReqwest("send")
    ELSE IF ~IsErrorStatus(d.status) THEN Ok
    ELSE IF d.body.t = "readError" THEN ErrReqwest("body")
    ELSE IF HasErrorsShape(d.body)
         THEN ErrBody(d.status,
                      [i \in DOMAIN Member(d.body, "errors").items |->
                          Member(d.body, "errors").items[i].s])
         ELSE ErrReqwest("decode")

RequestTo(path, body) ==
    [method |-> "POST",
     url |-> constructed.host \o path,
     headers |-> << <<"Content-Type", "application/json">>,
                    <<"DD-API-KEY", constructed.api_key>> >>,
     body |-> body]

C7_CallsAreIndependent ==
    /\ config = constructed
    /\ \A c \in Calls : Done(c) => local[c].result = ResultFor(delivered[c])

(* The two calls overlapped: the second, sent while the first was in       *)
(* flight, finished with the 403 of its own response while the first,      *)
(* answered with 500, was still waiting for its body.                      *)
C7_Witness ==
    /\ pc[1] = "awaitBody" /\ local[1].status = 500
    /\ Done(2) /\ local[2].result = ErrBody(403, <<"Authentication error">>)

----------------------------------------------------------------------------
(* Properties of the Serie builder and its serialization (SerieSpec).      *)

(* The Serie written out field by field with the values that builder call  *)
(* op leaves in it, s being the Serie before the call.                     *)
DirectSerie(s, op) ==
    [host     |-> IF op.op = "set_host" THEN Some(op.host) ELSE s.host,
     interval |-> IF op.op = "set_interval" THEN Some(op.interval) ELSE s.interval,
     metric   |-> s.metric,
     points   |-> IF op.op = "set_points" THEN op.points
                  ELSE IF op.op = "add_point" THEN s.points \o <<op.point>>
                  ELSE s.points,
     tags     |-> IF op.op = "set_tags" THEN op.tags
                  ELSE IF op.op = "add_tag" THEN s.tags \o <<op.tag>>
                  ELSE s.tags,
     dtype    |-> s.dtype]

(* C8: after each builder call the Serie serializes as the Serie written   *)
(* out directly with the resulting values does: a setter replaces its own  *)
(* field, add_point and add_tag append, set_points and set_tags replace    *)
(* the whole sequence, and every other field is as before the call.        *)
C8_BuilderEqualsDirect ==
    [][SerializeSerie(serie') = SerializeSerie(DirectSerie(serie, serieOp'))]_vars

(* The Serie of the crate's serialize_serie test, built by add_point,      *)
(* add_tag and set_host in that order, and its serialization.              *)
C8_Witness ==
    /\ serieOp = [op |-> "set_host", host |-> "host"]
    /\ SerializeSerie(serie) =
           JObj(<< <<"host", JStr("host")>>,
                   <<"metric", JStr("metric")>>,
                   <<"points", JArr(<< JArr(<<JNum(1234), JNum(1)>>) >>)>>,
                   <<"tags", JArr(<<JStr("tag")>>)>>,
                   <<"type", JStr("count")>> >>)

(* C10: the serialized Serie always has the tags key, with an array for    *)
(* its value, the empty array when there are no tags; it has the host key  *)
(* exactly when set_host was called and the interval key exactly when      *)
(* set_interval was.                                                       *)
C10_SerieTagsAlwaysPresent ==
    LET json == SerializeSerie(serie)
    IN  /\ "tags" \in Keys(json)
        /\ Member(json, "tags").t = "arr"
        /\ Len(Member(json, "tags").items) = Len(serie.tags)
        /\ serie.tags = <<>> => Member(json, "tags") = JArr(<<>>)
        /\ "host" \in Keys(json) <=> "host" \in serieSet
        /\ "interval" \in Keys(json) <=> "interval" \in serieSet

(* The tags were reset with set_tags of an empty list, with the host set   *)
(* and the interval not: "tags":[] is written, host is, interval is not.   *)
C10_Witness ==
    /\ serieOp = [op |-> "set_tags", tags |-> <<>>]
    /\ serieSet = {"host"}
    /\ Keys(SerializeSerie(serie)) = {"host", "metric", "points", "tags", "type"}
    /\ Member(SerializeSerie(serie), "tags") = JArr(<<>>)

----------------------------------------------------------------------------
(* Properties of the CreateEventPayload builder and its serialization      *)
(* (EventSpec).                                                            *)

OptionalFields ==
    {"aggregation_key", "alert_type", "date_happened", "device_name", "host",
     "priority", "related_event_id", "source_type_name"}

EventKeysAsSet ==
    LET json == SerializeEvent(event)
    IN  /\ "title" \in Keys(json)
        /\ "text" \in Keys(json)
        /\ \A f \in OptionalFields : f \in Keys(json) <=> f \in eventSet
        /\ "tags" \in Keys(json) <=> event.tags # <<>>
        /\ JNull \notin Values(json)

(* C9, as stated: title and text are always written, an optional field     *)
(* exactly when it was set, tags exactly when there are some, never a      *)
(* null; and an event with none of the optional fields set is written      *)
(* with the title and text keys only.                                      *)
C9_AsStated ==
    /\ EventKeysAsSet
    /\ eventSet = {} => Keys(SerializeEvent(event)) = {"title", "text"}

(* C9, amended: the same, with the last part for an event with none of the *)
(* optional fields set and no tags.                                        *)
C9_EventKeys ==
    /\ EventKeysAsSet
    /\ (eventSet = {} /\ event.tags = <<>>) =>
           Keys(SerializeEvent(event)) = {"title", "text"}

(* The event of the crate's documentation: an aggregation key set and one  *)
(* tag added.                                                              *)
C9_Witness ==
    /\ eventSet = {"aggregation_key"}
    /\ event.tags = <<"environment:prod">>
    /\ Keys(SerializeEvent(event)) = {"aggregation_key", "tags", "text", "title"}

====
